---------------------------- MODULE Spec2Model ----------------------------
(***************************************************************************)
(* A model of the fit/transform classes of the two notebooks:              *)
(*   missing_value_imputers.ipynb : NumAndNumImputer, CatAndNumImputer,    *)
(*                                  CatAndCatImputer, NumAndCatImputer,    *)
(*                                  MissingImputer                         *)
(*   unnamed/part_000             : OutlierHandler                         *)
(*                                                                         *)
(* A dataset (a pandas DataFrame) is a function from column names to       *)
(* sequences of cells, all of the same length.  A cell is either NA (the   *)
(* missing marker NaN/None) or a number.  Numbers are exact rationals      *)
(* <<n, d>> in lowest terms with d > 0, so that medians, means, quantiles  *)
(* and bin edges are computed without rounding.  The labels of a           *)
(* categorical column are numbers as well: pandas groups, compares and     *)
(* sorts them exactly as it does strings.                                  *)
(***************************************************************************)
EXTENDS Integers, Sequences, FiniteSets, TLC

(***************************************************************************)
(* Exact arithmetic.                                                       *)
(***************************************************************************)
Abs(n) == IF n < 0 THEN -n ELSE n

RECURSIVE GCD(_, _)
GCD(a, b) == IF b = 0 THEN a ELSE GCD(b, a % b)

Rat(n, d) ==
    LET g == GCD(Abs(n), Abs(d))
        s == IF d < 0 THEN -1 ELSE 1
    IN  << (s * n) \div g, (s * d) \div g >>

Q(n) == << n, 1 >>

RAdd(a, b) == Rat(a[1] * b[2] + b[1] * a[2], a[2] * b[2])
RSub(a, b) == Rat(a[1] * b[2] - b[1] * a[2], a[2] * b[2])
RMul(a, b) == Rat(a[1] * b[1], a[2] * b[2])
RLess(a, b) == a[1] * b[2] < b[1] * a[2]
RLeq(a, b)  == a[1] * b[2] <= b[1] * a[2]

(***************************************************************************)
(* Cells, columns and datasets.                                            *)
(***************************************************************************)
NA == << >>
IsNA(c) == c = NA

NRows(x) == Len(x[CHOOSE c \in DOMAIN x : TRUE])

\* Series.fillna(v)
fillna(col, v) == [r \in DOMAIN col |-> IF IsNA(col[r]) THEN v ELSE col[r]]

\* the values of a sequence at the rows of R, in row order
RECURSIVE SelectRows(_, _, _)
SelectRows(col, R, r) ==
    IF r > Len(col) THEN << >>
    ELSE IF r \in R THEN << col[r] >> \o SelectRows(col, R, r + 1)
         ELSE SelectRows(col, R, r + 1)

\* Series.dropna()
dropna(col) == SelectRows(col, {r \in DOMAIN col : ~IsNA(col[r])}, 1)

\* the numbers of a set in ascending order
RECURSIVE SortSet(_)
SortSet(S) ==
    IF S = {} THEN << >>
    ELSE LET m == CHOOSE a \in S : \A b \in S : RLeq(a, b)
         IN  << m >> \o SortSet(S \ {m})

\* a sequence of numbers in ascending order (np.sort)
RECURSIVE sorted(_)
sorted(s) ==
    IF Len(s) = 0 THEN << >>
    ELSE LET i == CHOOSE i \in DOMAIN s : \A j \in DOMAIN s : RLeq(s[i], s[j])
         IN  << s[i] >> \o sorted(SubSeq(s, 1, i - 1) \o SubSeq(s, i + 1, Len(s)))

\* the quantile without interpolation: the order statistic below the position
quantile_lower(s, qn, qd) == sorted(s)[((Len(s) - 1) * qn) \div qd + 1]

\* np.percentile / Series.quantile with linear interpolation, at q = qn/qd,
\* of a non-empty sequence of numbers
quantile(s, qn, qd) ==
    LET a   == sorted(s)
        pos == (Len(a) - 1) * qn
        i   == pos \div qd
        rem == pos % qd
    IN  IF rem = 0 THEN a[i + 1]
        ELSE RAdd(a[i + 1], RMul(RSub(a[i + 2], a[i + 1]), Rat(rem, qd)))

\* np.median / GroupBy.median of a non-empty sequence of numbers
median(s) ==
    LET a == sorted(s)
        m == Len(a)
    IN  IF m % 2 = 1 THEN a[(m + 1) \div 2]
        ELSE RMul(RAdd(a[m \div 2], a[m \div 2 + 1]), Rat(1, 2))

(***************************************************************************)
(* Python values: None, and an optional value.                             *)
(***************************************************************************)
None == << >>
Some(v) == << v >>
The(o) == o[1]

\* a dict as a function from its keys; d[k] = v
EmptyDict == [k \in {} |-> << >>]
DictSet(d, k, v) == [kk \in DOMAIN d \cup {k} |-> IF kk = k THEN v ELSE d[kk]]

(***************************************************************************)
(* sklearn.preprocessing.KBinsDiscretizer(encode='ordinal'): fit learns    *)
(* the bin edges of each feature, transform maps a value to the number of  *)
(* interior edges that are <= the value.  The infinite edges of a constant *)
(* feature are written -1/0 and 1/0.                                       *)
(***************************************************************************)
NegInf == << -1, 0 >>
PosInf == << 1, 0 >>

\* the bin edges whose distance to the edge before them is > 1e-8
RECURSIVE remove_small_bins(_, _)
remove_small_bins(edges, k) ==
    IF k > Len(edges) THEN << >>
    ELSE IF k = 1 \/ RLess(Rat(1, 100000000), RSub(edges[k], edges[k - 1]))
         THEN << edges[k] >> \o remove_small_bins(edges, k + 1)
         ELSE remove_small_bins(edges, k + 1)

\* the bin edges of fit without its case of a constant feature
kbins_fit_column_no_constant(column, nb, strategy) ==
    LET a       == sorted(column)
        col_min == a[1]
        col_max == a[Len(a)]
    IN  IF strategy = "uniform"
        THEN [k \in 1..(nb + 1) |->
                RAdd(col_min, RMul(RSub(col_max, col_min), Rat(k - 1, nb)))]
        ELSE remove_small_bins(
                [k \in 1..(nb + 1) |-> quantile(column, k - 1, nb)], 1)

\* the bin edges KBinsDiscretizer.fit learns for one feature
kbins_fit_column(column, nb, strategy) ==
    LET a       == sorted(column)
        col_min == a[1]
        col_max == a[Len(a)]
    IN  IF col_min = col_max THEN << NegInf, PosInf >>
        ELSE IF strategy = "uniform"
             THEN [k \in 1..(nb + 1) |->
                     RAdd(col_min, RMul(RSub(col_max, col_min), Rat(k - 1, nb)))]
             ELSE remove_small_bins(
                     [k \in 1..(nb + 1) |-> quantile(column, k - 1, nb)], 1)

\* KBinsDiscretizer.fit(x[cols].fillna(0)): the edges, feature by feature
kbins_fit(x, cols, nb, strategy) ==
    [j \in DOMAIN cols |-> kbins_fit_column(fillna(x[cols[j]], Q(0)), nb, strategy)]

\* the bin of one value: np.searchsorted(edges[1:-1], v, side='right')
kbins_bin(edges, v) ==
    Q(Cardinality({k \in 2..(Len(edges) - 1) : RLeq(edges[k], v)}))

\* KBinsDiscretizer.transform(x[cols].fillna(0)), made a DataFrame with the
\* columns cols: feature by feature, the bin of every row
kbins_transform(edges, x, cols) ==
    [j \in DOMAIN cols |->
        LET column == fillna(x[cols[j]], Q(0))
        IN  [r \in DOMAIN column |-> kbins_bin(edges[j], column[r])]]

\* binned_x[[src_col]].iloc[:, 0]: the first column of binned_x named src_col
binned_column(binned_x, cols, src_col) ==
    binned_x[CHOOSE j \in DOMAIN cols :
                cols[j] = src_col /\ \A i \in 1..(j - 1) : cols[i] # src_col]

(***************************************************************************)
(* collections.Counter and its most_common().                              *)
(***************************************************************************)
\* Counter(s): the distinct values of s in the order of their first
\* occurrence, each with the number of its occurrences
Counter(s) ==
    LET first == {i \in DOMAIN s : \A j \in 1..(i - 1) : s[j] # s[i]}
        vals  == SelectRows(s, first, 1)
    IN  [i \in DOMAIN vals |->
            << vals[i], Cardinality({j \in DOMAIN s : s[j] = vals[i]}) >>]

\* most_common() with entries of equal count in reverse order
RECURSIVE most_common_last(_)
most_common_last(c) ==
    IF Len(c) = 0 THEN << >>
    ELSE LET i == CHOOSE i \in DOMAIN c :
                    /\ \A j \in DOMAIN c : c[j][2] <= c[i][2]
                    /\ \A j \in (i + 1)..Len(c) : c[j][2] < c[i][2]
         IN  << c[i] >> \o most_common_last(SubSeq(c, 1, i - 1) \o SubSeq(c, i + 1, Len(c)))

\* most_common(): the entries by descending count; sorted() is stable, so
\* entries of equal count keep their order in the counter
RECURSIVE most_common(_)
most_common(c) ==
    IF Len(c) = 0 THEN << >>
    ELSE LET i == CHOOSE i \in DOMAIN c :
                    /\ \A j \in DOMAIN c : c[j][2] <= c[i][2]
                    /\ \A j \in 1..(i - 1) : c[j][2] < c[i][2]
         IN  << c[i] >> \o most_common(SubSeq(c, 1, i - 1) \o SubSeq(c, i + 1, Len(c)))

\* lambda k: Counter(k).most_common()[0][0]
mode(s) == most_common(Counter(s))[1][1]

(***************************************************************************)
(* The group statistic table of one pair.                                  *)
(***************************************************************************)
\* the statistic of the dest values of one group
statistic(stat, s) == IF stat = "median" THEN median(s) ELSE mode(s)

\* the table without dropna() of dest: a missing dest value counts as 0
group_table_fillna(keys, dest, stat) ==
    LET kept   == {r \in DOMAIN keys : ~IsNA(keys[r])}
        groups == SortSet({keys[r] : r \in kept})
    IN  [g \in DOMAIN groups |->
            << groups[g],
               statistic(stat, SelectRows(fillna(dest, Q(0)), {r \in kept : keys[r] = groups[g]}, 1)) >>]

\* the table of groupby(src_col, sort=False): the groups in the order in
\* which their keys are first met
group_table_unsorted(keys, dest, stat) ==
    LET kept   == {r \in DOMAIN keys : ~IsNA(keys[r]) /\ ~IsNA(dest[r])}
        met    == Counter(SelectRows(keys, kept, 1))
        groups == [g \in DOMAIN met |-> met[g][1]]
    IN  [g \in DOMAIN groups |->
            << groups[g],
               statistic(stat, SelectRows(dest, {r \in kept : keys[r] = groups[g]}, 1)) >>]

\* pd.DataFrame({src_col: keys, dest_col: dest}).dropna()
\*   .groupby(src_col, as_index=False).<stat>().to_dict(orient="split")['data']:
\* the rows with a key and a dest value, grouped by key (groupby sorts the
\* keys), one entry [key, statistic] per group
group_table(keys, dest, stat) ==
    LET kept   == {r \in DOMAIN keys : ~IsNA(keys[r]) /\ ~IsNA(dest[r])}
        groups == SortSet({keys[r] : r \in kept})
    IN  [g \in DOMAIN groups |->
            << groups[g],
               statistic(stat, SelectRows(dest, {r \in kept : keys[r] = groups[g]}, 1)) >>]

\* the key under which the table of a pair is stored
dict_key(src_col, dest_col) == src_col \o "_" \o dest_col

(***************************************************************************)
(* The four group imputers.  An instance is the record self of its         *)
(* attributes; kbins_discretizor is held as its learned bin_edges (None    *)
(* until it is fitted).                                                    *)
(***************************************************************************)
\* [i for i, j in self.column_pairs] and [j for i, j in self.column_pairs]
pair_srcs(pairs) == [i \in DOMAIN pairs |-> pairs[i][1]]
pair_dests(pairs) == [i \in DOMAIN pairs |-> pairs[i][2]]

\* the keys with a missing src value read as 0 in every class
key_column_fillna(binned, x, binned_x, srcs, src_col) ==
    IF binned THEN binned_column(binned_x, srcs, src_col) ELSE fillna(x[src_col], Q(0))

\* the keys always read from the src column of the first pair
key_column_first(binned, x, binned_x, srcs, src_col) ==
    IF binned THEN binned_column(binned_x, srcs, srcs[1]) ELSE x[srcs[1]]

\* the column a pair is grouped by (fit) or looked up by (transform): the
\* binned src column of the numeric-src classes, the src column itself of
\* the categorical-src classes
key_column(binned, x, binned_x, srcs, src_col) ==
    IF binned THEN binned_column(binned_x, srcs, src_col) ELSE x[src_col]

\* for src_col, dest_col in zip(self.src_cols, self.dest_cols): the loop of
\* fit, from pair i on; d is self.impute_value_dict
RECURSIVE fit_pairs(_, _, _, _, _, _, _, _)
fit_pairs(d, binned, x, binned_x, srcs, dests, stat, i) ==
    IF i > Len(srcs) THEN d
    ELSE fit_pairs(
            DictSet(d, dict_key(srcs[i], dests[i]),
                    group_table(key_column(binned, x, binned_x, srcs, srcs[i]),
                                x[dests[i]], stat)),
            binned, x, binned_x, srcs, dests, stat, i + 1)

\* the loop of transform without the test of x[dest_col].isna()
RECURSIVE impute_pair_overwrite(_, _, _, _, _, _, _, _)
impute_pair_overwrite(x, binned, binned_x, srcs, src_col, dest_col, table, c) ==
    IF c > Len(table) THEN x
    ELSE LET src_val  == table[c][1]
             dest_val == table[c][2]
             keys     == key_column(binned, x, binned_x, srcs, src_col)
         IN  impute_pair_overwrite(
                [x EXCEPT ![dest_col] =
                    [r \in DOMAIN @ |-> IF keys[r] = src_val THEN dest_val ELSE @[r]]],
                binned, binned_x, srcs, src_col, dest_col, table, c + 1)

\* the loop of transform assigning to src_col instead of dest_col
RECURSIVE impute_pair_into_src(_, _, _, _, _, _, _, _)
impute_pair_into_src(x, binned, binned_x, srcs, src_col, dest_col, table, c) ==
    IF c > Len(table) THEN x
    ELSE LET src_val  == table[c][1]
             dest_val == table[c][2]
             keys     == key_column(binned, x, binned_x, srcs, src_col)
         IN  impute_pair_into_src(
                [x EXCEPT ![src_col] =
                    [r \in DOMAIN @ |->
                        IF keys[r] = src_val /\ IsNA(x[dest_col][r]) THEN dest_val ELSE @[r]]],
                binned, binned_x, srcs, src_col, dest_col, table, c + 1)

\* the loop of transform writing the key of the entry instead of its
\* statistic
RECURSIVE impute_pair_src_val(_, _, _, _, _, _, _, _)
impute_pair_src_val(x, binned, binned_x, srcs, src_col, dest_col, table, c) ==
    IF c > Len(table) THEN x
    ELSE LET src_val == table[c][1]
             keys    == key_column(binned, x, binned_x, srcs, src_col)
         IN  impute_pair_src_val(
                [x EXCEPT ![dest_col] =
                    [r \in DOMAIN @ |->
                        IF keys[r] = src_val /\ IsNA(@[r]) THEN src_val ELSE @[r]]],
                binned, binned_x, srcs, src_col, dest_col, table, c + 1)

\* for cat in self.impute_value_dict[...]: the loop of transform over the
\* entries of one pair's table, from entry c on
RECURSIVE impute_pair(_, _, _, _, _, _, _, _)
impute_pair(x, binned, binned_x, srcs, src_col, dest_col, table, c) ==
    IF c > Len(table) THEN x
    ELSE LET src_val  == table[c][1]
             dest_val == table[c][2]
             keys     == key_column(binned, x, binned_x, srcs, src_col)
         IN  impute_pair(
                [x EXCEPT ![dest_col] =
                    [r \in DOMAIN @ |->
                        IF keys[r] = src_val /\ IsNA(@[r]) THEN dest_val ELSE @[r]]],
                binned, binned_x, srcs, src_col, dest_col, table, c + 1)

\* the dataset of transform after the first n pairs have been applied
RECURSIVE impute_pairs(_, _, _, _, _, _, _)
impute_pairs(x, binned, binned_x, srcs, dests, d, n) ==
    IF n = 0 THEN x
    ELSE impute_pair(impute_pairs(x, binned, binned_x, srcs, dests, d, n - 1),
                     binned, binned_x, srcs, srcs[n], dests[n],
                     d[dict_key(srcs[n], dests[n])], 1)

\* fit of NumAndNumImputer and NumAndCatImputer: the instance after fit(x)
binned_fit(slf, x, stat) ==
    LET srcs     == pair_srcs(slf.column_pairs)
        dests    == pair_dests(slf.column_pairs)
        edges    == kbins_fit(x, srcs, slf.n_bins, slf.binning_strategy)
        binned_x == kbins_transform(edges, x, srcs)
    IN  [slf EXCEPT !.src_cols = Some(srcs),
                    !.dest_cols = Some(dests),
                    !.bin_edges = Some(edges),
                    !.impute_value_dict =
                        fit_pairs(@, TRUE, x, binned_x, srcs, dests, stat, 1)]

\* fit of CatAndNumImputer and CatAndCatImputer: the instance after fit(x)
raw_fit(slf, x, stat) ==
    LET srcs  == pair_srcs(slf.column_pairs)
        dests == pair_dests(slf.column_pairs)
    IN  [slf EXCEPT !.src_cols = Some(srcs),
                    !.dest_cols = Some(dests),
                    !.impute_value_dict =
                        fit_pairs(@, FALSE, x, x, srcs, dests, stat, 1)]

\* transform binning the src columns again before every pair, from the
\* dataset as the pairs before have filled it
RECURSIVE binned_transform_upto_rebinned(_, _, _)
binned_transform_upto_rebinned(slf, x, n) ==
    IF n = 0 THEN x
    ELSE LET srcs     == The(slf.src_cols)
             dests    == The(slf.dest_cols)
             filled   == binned_transform_upto_rebinned(slf, x, n - 1)
             binned_x == kbins_transform(The(slf.bin_edges), filled, srcs)
         IN  impute_pair(filled, TRUE, binned_x, srcs, srcs[n], dests[n],
                         slf.impute_value_dict[dict_key(srcs[n], dests[n])], 1)

\* transform of NumAndNumImputer and NumAndCatImputer on a fitted instance:
\* the dataset after the first n pairs (all of them: the return value)
binned_transform_upto(slf, x, n) ==
    LET srcs     == The(slf.src_cols)
        binned_x == kbins_transform(The(slf.bin_edges), x, srcs)
    IN  impute_pairs(x, TRUE, binned_x, srcs, The(slf.dest_cols),
                     slf.impute_value_dict, n)

\* transform of CatAndNumImputer and CatAndCatImputer on a fitted instance
raw_transform_upto(slf, x, n) ==
    impute_pairs(x, FALSE, x, The(slf.src_cols), The(slf.dest_cols),
                 slf.impute_value_dict, n)

NumAndNumImputer_fit(slf, x) == binned_fit(slf, x, "median")
CatAndNumImputer_fit(slf, x) == raw_fit(slf, x, "median")
CatAndCatImputer_fit(slf, x) == raw_fit(slf, x, "mode")
NumAndCatImputer_fit(slf, x) == binned_fit(slf, x, "mode")

BinnedClasses == {"NumAndNumImputer", "NumAndCatImputer"}
RawClasses == {"CatAndNumImputer", "CatAndCatImputer"}
GroupClasses == BinnedClasses \cup RawClasses

\* the dataset of a group imputer's transform after its first n pairs
transform_upto(slf, x, n) ==
    IF slf.class \in BinnedClasses THEN binned_transform_upto(slf, x, n)
    ELSE raw_transform_upto(slf, x, n)

NumAndNumImputer_transform(slf, x) == binned_transform_upto(slf, x, Len(The(slf.src_cols)))
CatAndNumImputer_transform(slf, x) == raw_transform_upto(slf, x, Len(The(slf.src_cols)))
CatAndCatImputer_transform(slf, x) == raw_transform_upto(slf, x, Len(The(slf.src_cols)))
NumAndCatImputer_transform(slf, x) == binned_transform_upto(slf, x, Len(The(slf.src_cols)))

(***************************************************************************)
(* MissingImputer.  strategies is the sequence of the dict's items         *)
(* << column, strategy >> in insertion order; a strategy is one of the     *)
(* tags << "mean" >>, << "median" >>, << "mode" >> or a constant: a number  *)
(* or another string, << "not_available" >>.                               *)
(***************************************************************************)
\* the keys of a dict given as the sequence of its items
item_keys(items) == {items[i][1] : i \in DOMAIN items}

\* the sum of a sequence of numbers
RECURSIVE sum(_)
sum(s) == IF Len(s) = 0 THEN Q(0) ELSE RAdd(s[1], sum(Tail(s)))

\* a mean that is 0 for an empty sequence
np_mean_zero(s) == IF Len(s) = 0 THEN Q(0) ELSE RMul(sum(s), Rat(1, Len(s)))

\* np.mean and np.median: nan of an empty sequence
np_mean(s) == IF Len(s) = 0 THEN NA ELSE RMul(sum(s), Rat(1, Len(s)))
np_median(s) == IF Len(s) = 0 THEN NA ELSE median(s)

\* the loop of fit with the test of 'median' left out: 'median' is stored as
\* a constant
RECURSIVE MissingImputer_fit_loop_no_median(_, _, _, _)
MissingImputer_fit_loop_no_median(impute_values, strategies, x, i) ==
    IF i > Len(strategies) THEN [impute_values |-> impute_values, raised |-> FALSE]
    ELSE LET col      == strategies[i][1]
             strategy == strategies[i][2]
             col_data == dropna(x[col])
         IN  IF strategy = << "mean" >>
             THEN MissingImputer_fit_loop_no_median(
                    DictSet(impute_values, col, np_mean(col_data)), strategies, x, i + 1)
             ELSE IF strategy = << "mode" >>
             THEN IF Len(most_common(Counter(col_data))) = 0
                  THEN [impute_values |-> impute_values, raised |-> TRUE]
                  ELSE MissingImputer_fit_loop_no_median(
                          DictSet(impute_values, col, most_common(Counter(col_data))[1][1]),
                          strategies, x, i + 1)
             ELSE MissingImputer_fit_loop_no_median(DictSet(impute_values, col, strategy),
                                                    strategies, x, i + 1)

\* for col in self.strategies: the loop of fit from item i on; the result is
\* impute_values and whether the loop raised (most_common(1)[0] of an empty
\* counter is an IndexError)
RECURSIVE MissingImputer_fit_loop(_, _, _, _)
MissingImputer_fit_loop(impute_values, strategies, x, i) ==
    IF i > Len(strategies) THEN [impute_values |-> impute_values, raised |-> FALSE]
    ELSE LET col      == strategies[i][1]
             strategy == strategies[i][2]
             col_data == dropna(x[col])
         IN  IF strategy = << "mean" >>
             THEN MissingImputer_fit_loop(DictSet(impute_values, col, np_mean(col_data)),
                                          strategies, x, i + 1)
             ELSE IF strategy = << "median" >>
             THEN MissingImputer_fit_loop(DictSet(impute_values, col, np_median(col_data)),
                                          strategies, x, i + 1)
             ELSE IF strategy = << "mode" >>
             THEN IF Len(most_common(Counter(col_data))) = 0
                  THEN [impute_values |-> impute_values, raised |-> TRUE]
                  ELSE MissingImputer_fit_loop(
                          DictSet(impute_values, col, most_common(Counter(col_data))[1][1]),
                          strategies, x, i + 1)
             ELSE MissingImputer_fit_loop(DictSet(impute_values, col, strategy),
                                          strategies, x, i + 1)

\* MissingImputer.fit: the instance after fit(x), and whether fit raised
MissingImputer_fit(slf, x) ==
    LET r == MissingImputer_fit_loop(slf.impute_values, slf.strategies, x, 1)
    IN  [self |-> [slf EXCEPT !.impute_values = r.impute_values], raised |-> r.raised]

\* transform assigning the scalar to the column: x[col] = impute_values[col]
MissingImputer_transform_assign(slf, x) ==
    [c \in DOMAIN x |->
        IF c \in DOMAIN slf.impute_values
        THEN [r \in DOMAIN x[c] |-> slf.impute_values[c]]
        ELSE x[c]]

\* MissingImputer.transform: x[col] = x[col].fillna(self.impute_values[col])
\* for every col of impute_values (fillna(nan) fills nothing)
MissingImputer_transform(slf, x) ==
    [c \in DOMAIN x |->
        IF c \in DOMAIN slf.impute_values
        THEN fillna(x[c], slf.impute_values[c])
        ELSE x[c]]

(***************************************************************************)
(* OutlierHandler.  strategies is the sequence of the dict's items         *)
(* << column, strategy >>, a strategy one of                               *)
(*   << "quantile", << lower_quantile, upper_quantile >>, fill_value >>    *)
(*   << "values", << lower_bound, upper_bound >>, fill_value >>            *)
(*   << "iqr", fill_value >>                                               *)
(* with the quantiles and bounds numbers.  A bound is NA when it is nan.   *)
(***************************************************************************)
\* Series.quantile(q): over the values that are not missing, nan of none
series_quantile(col, q) ==
    IF Len(dropna(col)) = 0 THEN NA ELSE quantile(dropna(col), q[1], q[2])

\* the bounds at one IQR from the quartiles instead of 1.5
find_iqr_bounds_unit(col) ==
    LET q1  == series_quantile(col, Rat(1, 4))
        q3  == series_quantile(col, Rat(3, 4))
    IN  IF IsNA(q1) THEN << NA, NA >>
        ELSE << RSub(q1, RSub(q3, q1)), RAdd(q3, RSub(q3, q1)) >>

\* OutlierHandler.__find_iqr_bounds
find_iqr_bounds(col) ==
    LET q1  == series_quantile(col, Rat(1, 4))
        q3  == series_quantile(col, Rat(3, 4))
    IN  IF IsNA(q1) THEN << NA, NA >>
        ELSE LET iqr == RSub(q3, q1)
             IN  << RSub(q1, RMul(Rat(3, 2), iqr)), RAdd(q3, RMul(Rat(3, 2), iqr)) >>

\* OutlierHandler.__find_quantile_bounds
find_quantile_bounds(col, bounds) ==
    << series_quantile(col, bounds[1]), series_quantile(col, bounds[2]) >>

\* for col in self.strategies: the loop of fit from item i on
RECURSIVE OutlierHandler_fit_loop(_, _, _)
OutlierHandler_fit_loop(slf, x, i) ==
    IF i > Len(slf.strategies) THEN slf
    ELSE LET col      == slf.strategies[i][1]
             strategy == slf.strategies[i][2]
             method   == strategy[1]
         IN  IF method = "quantile"
             THEN OutlierHandler_fit_loop(
                    [slf EXCEPT !.outlier_bounds =
                                    DictSet(@, col, find_quantile_bounds(x[col], strategy[2])),
                                !.fill_values = DictSet(@, col, strategy[3])],
                    x, i + 1)
             ELSE IF method = "values"
             THEN OutlierHandler_fit_loop(
                    [slf EXCEPT !.outlier_bounds = DictSet(@, col, strategy[2]),
                                !.fill_values = DictSet(@, col, strategy[3])],
                    x, i + 1)
             ELSE OutlierHandler_fit_loop(
                    [slf EXCEPT !.outlier_bounds = DictSet(@, col, find_iqr_bounds(x[col])),
                                !.fill_values = DictSet(@, col, strategy[2])],
                    x, i + 1)

\* OutlierHandler.fit: the instance after fit(x)
OutlierHandler_fit(slf, x) == OutlierHandler_fit_loop(slf, x, 1)

\* x[col] <= bound of one cell
cell_le(c, bound) == ~IsNA(c) /\ ~IsNA(bound) /\ RLeq(c, bound)

\* x[col] < bound and x[col] > bound of one cell: False on nan
cell_lt(c, bound) == ~IsNA(c) /\ ~IsNA(bound) /\ RLess(c, bound)
cell_gt(c, bound) == ~IsNA(c) /\ ~IsNA(bound) /\ RLess(bound, c)

\* the two assignments with the values to write exchanged
replace_outside_swapped(col, lower_bound, upper_bound, low, high) ==
    LET below == [r \in DOMAIN col |-> IF cell_lt(col[r], lower_bound) THEN high ELSE col[r]]
    IN  [r \in DOMAIN col |-> IF cell_gt(below[r], upper_bound) THEN low ELSE below[r]]

\* the two assignments x.loc[x[col] < lower_bound, col] = low and then
\* x.loc[x[col] > upper_bound, col] = high, on one column
replace_outside(col, lower_bound, upper_bound, low, high) ==
    LET below == [r \in DOMAIN col |-> IF cell_lt(col[r], lower_bound) THEN low ELSE col[r]]
    IN  [r \in DOMAIN col |-> IF cell_gt(below[r], upper_bound) THEN high ELSE below[r]]

\* the body of the loop of transform for one column
OutlierHandler_transform_column(slf, col, column) ==
    LET bounds      == slf.outlier_bounds[col]
        lower_bound == bounds[1]
        upper_bound == bounds[2]
        fill_value  == slf.fill_values[col]
    IN  IF fill_value = "na"
        THEN replace_outside(column, lower_bound, upper_bound, NA, NA)
        ELSE replace_outside(column, lower_bound, upper_bound, lower_bound, upper_bound)

\* OutlierHandler.transform on an instance whose outlier_bounds has every
\* column of strategies
OutlierHandler_transform(slf, x) ==
    [c \in DOMAIN x |->
        IF c \in item_keys(slf.strategies)
        THEN OutlierHandler_transform_column(slf, c, x[c])
        ELSE x[c]]

(***************************************************************************)
(* The state: one instance and its caller.                                 *)
(***************************************************************************)
VARIABLES
    self,      \* the instance: the record of its attributes
    data,      \* the caller's dataset, the argument of the calls
    result,    \* what the last call of transform returned, None if it raised
    raised,    \* whether the last call raised
    call,      \* the last call made on the dataset in data: "none", "fit", "transform"
    fits,      \* the instance's call of fit: "none", "raised", "completed"
    previous   \* the dataset the caller held before data, when data comes
               \* from it: the one whose transform returned data, or the one
               \* of the fit before a second fit; None otherwise

vars == << self, data, result, raised, call, fits, previous >>

\* the caller's dataset after a call that works on x itself
argument_after_call_inplace(x, local_x) == local_x

\* the instance after a transform that fits the discretizer and the tables
\* again on its argument
instance_after_transform_refit(slf, x) ==
    IF slf.class = "NumAndCatImputer" /\ slf.src_cols # None
    THEN NumAndCatImputer_fit(slf, x)
    ELSE slf

\* the caller's dataset after a call that starts with x = x.copy(): the
\* method works on its own copy
argument_after_call(x, local_x) == x

\* the instance after a call of transform: no transform assigns an attribute
\* of self, and KBinsDiscretizer.transform leaves bin_edges_ as fit set it
instance_after_transform(slf, x) == slf

(***************************************************************************)
(* Bounds and inputs.                                                      *)
(***************************************************************************)
\* the rows of a dataset given to fit, and of a dataset given to transform
FitRows == 2
TransformRows == 1

Cols == {"a", "b", "c"}
Cells == {NA, Q(1), Q(2)}
Datasets(n) == [Cols -> [1..n -> Cells]]

\* n_bins=5 of __init__
DefaultNBins == 5

\* lists of column pairs: two pairs with one dest, a chain in both orders of
\* declaration, two pairs with one src
PairLists ==
    { << << "a", "c" >>, << "b", "c" >> >>,
      << << "a", "b" >>, << "b", "c" >> >>,
      << << "b", "c" >>, << "a", "b" >> >>,
      << << "a", "b" >>, << "a", "c" >> >> }

\* __init__ of the four group imputers
NewBinnedImputer(cls, pairs, nb, strategy) ==
    [class |-> cls, column_pairs |-> pairs, n_bins |-> nb, binning_strategy |-> strategy,
     src_cols |-> None, dest_cols |-> None, bin_edges |-> None,
     impute_value_dict |-> EmptyDict]

NewRawImputer(cls, pairs) ==
    [class |-> cls, column_pairs |-> pairs, src_cols |-> None, dest_cols |-> None,
     impute_value_dict |-> EmptyDict]

\* MissingImputer.__init__
NewMissingImputer(strategies) ==
    [class |-> "MissingImputer", strategies |-> strategies, impute_values |-> EmptyDict]

\* OutlierHandler.__init__
NewOutlierHandler(strategies) ==
    [class |-> "OutlierHandler", strategies |-> strategies,
     outlier_bounds |-> EmptyDict, fill_values |-> EmptyDict]

MissingStrategies ==
    { << << "a", << "mean" >> >>, << "b", << "mode" >> >> >>,
      << << "a", << "median" >> >>, << "c", Q(2) >> >>,
      << << "b", << "not_available" >> >>, << "c", << "mean" >> >> >> }

OutlierStrategies ==
    { << << "a", << "quantile", << Rat(1, 5), Rat(4, 5) >>, "na" >> >>,
         << "b", << "iqr", "clip" >> >> >>,
      << << "a", << "values", << Q(2), Q(2) >>, "clip" >> >>,
         << "c", << "iqr", "na" >> >> >>,
      << << "b", << "values", << Q(2), Q(1) >>, "clip" >> >>,
         << "c", << "values", << Q(2), Q(1) >>, "na" >> >> >>,
      << >> }

GroupInstances ==
    { NewBinnedImputer(cls, pairs, DefaultNBins, strategy) :
        cls \in BinnedClasses, pairs \in PairLists, strategy \in {"quantile", "uniform"} }
    \cup { NewRawImputer(cls, pairs) : cls \in RawClasses, pairs \in PairLists }

Instances ==
    GroupInstances
    \cup { NewMissingImputer(st) : st \in MissingStrategies }
    \cup { NewOutlierHandler(st) : st \in OutlierStrategies }

(***************************************************************************)
(* The calls.                                                              *)
(***************************************************************************)
Init ==
    /\ self \in Instances
    /\ data \in Datasets(FitRows)
    /\ result = None
    /\ raised = FALSE
    /\ call = "none"
    /\ fits = "none"
    /\ previous = None

\* the caller takes another dataset, once the one it holds has been used
Load ==
    \E x \in Datasets(TransformRows) :
        /\ call # "none"
        /\ data' = x
        /\ result' = None
        /\ raised' = FALSE
        /\ call' = "none"
        /\ previous' = None
        /\ UNCHANGED << self, fits >>

\* the caller takes the dataset the last transform returned
Feed ==
    /\ call = "transform"
    /\ result # None
    /\ data' = The(result)
    /\ result' = None
    /\ raised' = FALSE
    /\ call' = "none"
    /\ previous' = Some(data)
    /\ UNCHANGED << self, fits >>

\* a call of fit on a new instance that leaves the instance new_self
FitCall(new_self, fit_raised) ==
    /\ fits = "none"
    /\ self' = new_self
    /\ raised' = fit_raised
    /\ fits' = IF fit_raised THEN "raised" ELSE "completed"
    /\ call' = "fit"
    /\ result' = None
    /\ data' = argument_after_call(data, data)
    /\ UNCHANGED previous

\* a call of transform that raises when fails, and returns out otherwise
TransformCall(fails, out) ==
    /\ call' = "transform"
    /\ raised' = fails
    /\ result' = IF fails THEN None ELSE Some(out)
    /\ data' = IF fails THEN data ELSE argument_after_call(data, out)
    /\ self' = instance_after_transform(self, data)
    /\ UNCHANGED << fits, previous >>

NumAndNumImputer_fit_call ==
    /\ self.class = "NumAndNumImputer"
    /\ FitCall(NumAndNumImputer_fit(self, data), FALSE)

CatAndNumImputer_fit_call ==
    /\ self.class = "CatAndNumImputer"
    /\ FitCall(CatAndNumImputer_fit(self, data), FALSE)

CatAndCatImputer_fit_call ==
    /\ self.class = "CatAndCatImputer"
    /\ FitCall(CatAndCatImputer_fit(self, data), FALSE)

NumAndCatImputer_fit_call ==
    /\ self.class = "NumAndCatImputer"
    /\ FitCall(NumAndCatImputer_fit(self, data), FALSE)

MissingImputer_fit_call ==
    /\ self.class = "MissingImputer"
    /\ FitCall(MissingImputer_fit(self, data).self, MissingImputer_fit(self, data).raised)

OutlierHandler_fit_call ==
    /\ self.class = "OutlierHandler"
    /\ FitCall(OutlierHandler_fit(self, data), FALSE)

\* x[self.src_cols] and zip(self.src_cols, self.dest_cols) raise while
\* src_cols is None
NumAndNumImputer_transform_call ==
    /\ self.class = "NumAndNumImputer"
    /\ TransformCall(self.src_cols = None,
                     IF self.src_cols = None THEN data
                     ELSE NumAndNumImputer_transform(self, data))

CatAndNumImputer_transform_call ==
    /\ self.class = "CatAndNumImputer"
    /\ TransformCall(self.src_cols = None,
                     IF self.src_cols = None THEN data
                     ELSE CatAndNumImputer_transform(self, data))

CatAndCatImputer_transform_call ==
    /\ self.class = "CatAndCatImputer"
    /\ TransformCall(self.src_cols = None,
                     IF self.src_cols = None THEN data
                     ELSE CatAndCatImputer_transform(self, data))

NumAndCatImputer_transform_call ==
    /\ self.class = "NumAndCatImputer"
    /\ TransformCall(self.src_cols = None,
                     IF self.src_cols = None THEN data
                     ELSE NumAndCatImputer_transform(self, data))

MissingImputer_transform_call ==
    /\ self.class = "MissingImputer"
    /\ TransformCall(FALSE, MissingImputer_transform(self, data))

\* self.outlier_bounds[col] raises KeyError for a column of strategies that
\* fit has not stored
OutlierHandler_unfitted(slf) ==
    \E c \in item_keys(slf.strategies) : c \notin DOMAIN slf.outlier_bounds

OutlierHandler_transform_call ==
    /\ self.class = "OutlierHandler"
    /\ TransformCall(OutlierHandler_unfitted(self),
                     IF OutlierHandler_unfitted(self) THEN data
                     ELSE OutlierHandler_transform(self, data))

Next ==
    \/ Load
    \/ Feed
    \/ NumAndNumImputer_fit_call
    \/ CatAndNumImputer_fit_call
    \/ CatAndCatImputer_fit_call
    \/ NumAndCatImputer_fit_call
    \/ MissingImputer_fit_call
    \/ OutlierHandler_fit_call
    \/ NumAndNumImputer_transform_call
    \/ CatAndNumImputer_transform_call
    \/ CatAndCatImputer_transform_call
    \/ NumAndCatImputer_transform_call
    \/ MissingImputer_transform_call
    \/ OutlierHandler_transform_call

Spec == Init /\ [][Next]_vars

(***************************************************************************)
(* What the properties are stated with.                                    *)
(***************************************************************************)
IsGroup == self.class \in GroupClasses
IsBinned == self.class \in BinnedClasses
IsRaw == self.class \in RawClasses

\* fit has returned and data is the dataset it was given
AfterFit == call = "fit" /\ fits = "completed"

\* transform has returned a dataset for the argument data
Returned == call = "transform" /\ result # None

Srcs == pair_srcs(self.column_pairs)
Dests == pair_dests(self.column_pairs)
PairIds == DOMAIN self.column_pairs
RowIds == 1..NRows(data)

\* the table stored for pair i, the keys of a table, the statistic of a key
PairTable(i) == self.impute_value_dict[dict_key(Srcs[i], Dests[i])]
TableKeys(t) == {t[e][1] : e \in DOMAIN t}
TableStat(t, k) == t[CHOOSE e \in DOMAIN t : t[e][1] = k][2]

\* the bin of every row of the src column of pair i in the dataset x, under
\* the fitted bin edges (a missing value is read as 0)
BinColumn(x, i) ==
    binned_column(kbins_transform(The(self.bin_edges), x, Srcs), Srcs, Srcs[i])

\* the dataset of transform(data) before pair i is applied, and after
Before(i) == transform_upto(self, data, i - 1)
After(i) == transform_upto(self, data, i)

\* the key transform looks up for row r when it applies pair i
LookupKey(i, r) == IF IsBinned THEN BinColumn(data, i)[r] ELSE Before(i)[Srcs[i]][r]

\* the pairs with the dest column of pair i that are declared before it and
\* whose table has the key of row r
EarlierHits(i, r) ==
    {h \in 1..(i - 1) : Dests[h] = Dests[i] /\ LookupKey(h, r) \in TableKeys(PairTable(h))}

(***************************************************************************)
(* C1.  NumAndNumImputer: for every pair (src, dst) and every row in which *)
(* dst is missing in D and the bin of the src value has an entry in the    *)
(* pair's table, the cell of transform(D) equals the median of that entry. *)
(* As claimed, for all pairs, also those that share a dst: this fails.     *)
(***************************************************************************)
C1_EveryPairFills ==
    (self.class = "NumAndNumImputer" /\ Returned /\ fits = "completed") =>
        \A i \in PairIds : \A r \in RowIds :
            (IsNA(data[Dests[i]][r]) /\ BinColumn(data, i)[r] \in TableKeys(PairTable(i)))
                => The(result)[Dests[i]][r] = TableStat(PairTable(i), BinColumn(data, i)[r])

(***************************************************************************)
(* C1 as amended: such a cell is not missing in transform(D); it equals    *)
(* the median of the pair's entry when no pair declared earlier with the   *)
(* same dst has an entry for the row, and the median of the first such     *)
(* pair otherwise.                                                         *)
(***************************************************************************)
C1_FirstPairFills ==
    (self.class = "NumAndNumImputer" /\ Returned /\ fits = "completed") =>
        \A i \in PairIds : \A r \in RowIds :
            (IsNA(data[Dests[i]][r]) /\ BinColumn(data, i)[r] \in TableKeys(PairTable(i)))
                => /\ ~IsNA(The(result)[Dests[i]][r])
                   /\ LET first == IF EarlierHits(i, r) = {} THEN i
                                   ELSE CHOOSE h \in EarlierHits(i, r) :
                                            \A g \in EarlierHits(i, r) : h <= g
                      IN  The(result)[Dests[i]][r]
                            = TableStat(PairTable(first), BinColumn(data, first)[r])

\* a cell that was missing is filled with the median of a pair that is not
\* the first declared for its dst, an earlier one having no entry for the row
C1_Witness ==
    /\ self.class = "NumAndNumImputer" /\ Returned /\ fits = "completed"
    /\ \E i \in PairIds : \E r \in RowIds :
        /\ \E h \in 1..(i - 1) : Dests[h] = Dests[i]
        /\ EarlierHits(i, r) = {}
        /\ IsNA(data[Dests[i]][r])
        /\ BinColumn(data, i)[r] \in TableKeys(PairTable(i))
        /\ The(result)[Dests[i]][r] = TableStat(PairTable(i), BinColumn(data, i)[r])

(***************************************************************************)
(* C2.  CatAndCatImputer and CatAndNumImputer, when transform applies a    *)
(* pair (src, dst): a row whose dst is missing at that moment and whose    *)
(* src value is a key of the pair's table gets the statistic of that key;  *)
(* a row whose src value is no key of the table (an unseen category, a     *)
(* missing src) keeps its dst cell; transform does not raise.              *)
(***************************************************************************)
C2_PairApplication ==
    (IsRaw /\ call = "transform" /\ fits = "completed") =>
        /\ ~raised
        /\ result # None
        /\ \A i \in PairIds : \A r \in RowIds :
            LET t   == PairTable(i)
                k   == Before(i)[Srcs[i]][r]
                was == Before(i)[Dests[i]][r]
                now == After(i)[Dests[i]][r]
            IN  /\ (IsNA(was) /\ k \in TableKeys(t)) => now = TableStat(t, k)
                /\ k \notin TableKeys(t) => now = was

\* one transform in which a pair fills a cell, and a pair meets a category
\* its table does not have in a row whose dst is missing
C2_Witness ==
    /\ IsRaw /\ Returned /\ fits = "completed"
    /\ \E i \in PairIds : \E r \in RowIds :
        /\ IsNA(Before(i)[Dests[i]][r])
        /\ Before(i)[Srcs[i]][r] \in TableKeys(PairTable(i))
        /\ ~IsNA(After(i)[Dests[i]][r])
    /\ \E i \in PairIds : \E r \in RowIds :
        /\ IsNA(Before(i)[Dests[i]][r])
        /\ ~IsNA(Before(i)[Srcs[i]][r])
        /\ PairTable(i) # << >>
        /\ Before(i)[Srcs[i]][r] \notin TableKeys(PairTable(i))
        /\ IsNA(After(i)[Dests[i]][r])

(***************************************************************************)
(* C3.  CatAndCatImputer and CatAndNumImputer: when every row of the fit   *)
(* dataset with src category k has a missing dst (and there is such a      *)
(* row), fit stores no entry for k in the pair's table, and transform      *)
(* leaves dst missing in every row whose src is k.  As claimed, of the     *)
(* dataset transform returns: this fails when another pair with the same   *)
(* dst fills the cell.                                                     *)
(***************************************************************************)
\* every row of the fit dataset data with src category k of pair i has a
\* missing dst, and there is one
AllDestMissing(i, k) ==
    /\ \E r \in RowIds : data[Srcs[i]][r] = k
    /\ \A r \in RowIds : data[Srcs[i]][r] = k => IsNA(data[Dests[i]][r])

\* the datasets transform is tried on: the fit dataset and every dataset of
\* TransformRows rows
TransformInputs == Datasets(TransformRows) \cup {data}

C3_TransformLeavesMissing ==
    (IsRaw /\ AfterFit) =>
        \A i \in PairIds : \A k \in Cells \ {NA} :
            AllDestMissing(i, k) =>
                /\ k \notin TableKeys(PairTable(i))
                /\ \A x \in TransformInputs : \A r \in 1..NRows(x) :
                    (x[Srcs[i]][r] = k /\ IsNA(x[Dests[i]][r]))
                        => IsNA(transform_upto(self, x, Len(Srcs))[Dests[i]][r])

(***************************************************************************)
(* C3 as amended: fit stores no entry for k; transform, applying the pair  *)
(* (src, dst), leaves the dst cell of every row whose src is k as it is;   *)
(* the cell of a row whose src is k and whose dst is missing is missing in *)
(* the dataset transform returns unless another pair with the same dst has *)
(* an entry for the row.                                                   *)
(***************************************************************************)
\* transform(x) applies a pair other than i that has the dst of pair i and
\* an entry for row r
OtherPairHits(x, i, r) ==
    \E h \in PairIds :
        /\ h # i
        /\ Dests[h] = Dests[i]
        /\ transform_upto(self, x, h - 1)[Srcs[h]][r] \in TableKeys(PairTable(h))

C3_PairLeavesMissing ==
    (IsRaw /\ AfterFit) =>
        \A i \in PairIds : \A k \in Cells \ {NA} :
            AllDestMissing(i, k) =>
                /\ k \notin TableKeys(PairTable(i))
                /\ \A x \in TransformInputs : \A r \in 1..NRows(x) :
                    /\ transform_upto(self, x, i - 1)[Srcs[i]][r] = k
                        => transform_upto(self, x, i)[Dests[i]][r]
                             = transform_upto(self, x, i - 1)[Dests[i]][r]
                    /\ (x[Srcs[i]][r] = k /\ IsNA(x[Dests[i]][r]) /\ ~OtherPairHits(x, i, r))
                        => IsNA(transform_upto(self, x, Len(Srcs))[Dests[i]][r])

\* the fit dataset has one row with category k, its dst missing, while the
\* pair's table has an entry for another category
C3_Witness ==
    /\ IsRaw /\ AfterFit
    /\ \E i \in PairIds : \E k \in Cells \ {NA} :
        /\ AllDestMissing(i, k)
        /\ Cardinality({r \in RowIds : data[Srcs[i]][r] = k}) = 1
        /\ PairTable(i) # << >>
        /\ \A h \in PairIds : h # i => Dests[h] # Dests[i]
        /\ IsNA(transform_upto(self, data, Len(Srcs))[Dests[i]]
                    [CHOOSE r \in RowIds : data[Srcs[i]][r] = k])

(***************************************************************************)
(* C4.  Mode tie-break of CatAndCatImputer.fit, NumAndCatImputer.fit and   *)
(* MissingImputer.fit with 'mode': the stored statistic is a most frequent *)
(* dst value of its group (of the column), and among the most frequent     *)
(* values it is the one whose first row in the group comes first in the    *)
(* fit dataset.                                                            *)
(***************************************************************************)
\* the key fit groups row r by for pair i
FitKey(i, r) == IF IsBinned THEN BinColumn(data, i)[r] ELSE data[Srcs[i]][r]

\* v is the first-met most frequent value of column col over the rows R
FirstMostFrequent(col, R, v) ==
    LET count(w) == Cardinality({r \in R : data[col][r] = w})
        first(w) == CHOOSE r \in R : data[col][r] = w /\ \A q \in R : data[col][q] = w => r <= q
    IN  /\ \E r \in R : data[col][r] = v
        /\ \A r \in R :
            LET w == data[col][r]
            IN  /\ count(w) <= count(v)
                /\ (count(w) = count(v) /\ w # v) => first(v) < first(w)

C4_ModeTieBreak ==
    /\ (self.class \in {"CatAndCatImputer", "NumAndCatImputer"} /\ AfterFit) =>
        \A i \in PairIds : \A e \in DOMAIN PairTable(i) :
            FirstMostFrequent(Dests[i],
                {r \in RowIds : FitKey(i, r) = PairTable(i)[e][1] /\ ~IsNA(data[Dests[i]][r])},
                PairTable(i)[e][2])
    /\ (self.class = "MissingImputer" /\ AfterFit) =>
        \A s \in DOMAIN self.strategies :
            self.strategies[s][2] = << "mode" >> =>
                FirstMostFrequent(self.strategies[s][1],
                    {r \in RowIds : ~IsNA(data[self.strategies[s][1]][r])},
                    self.impute_values[self.strategies[s][1]])

\* a group with two values of the same frequency, the larger one met first
TieWonByFirst(col, R, v) ==
    \E r \in R : \E q \in R :
        /\ r < q
        /\ data[col][r] = v
        /\ RLess(data[col][q], v)
        /\ Cardinality({p \in R : data[col][p] = v})
             = Cardinality({p \in R : data[col][p] = data[col][q]})

C4_Witness ==
    /\ self.class = "NumAndCatImputer" /\ AfterFit
    /\ \E i \in PairIds : \E e \in DOMAIN PairTable(i) :
        TieWonByFirst(Dests[i],
            {r \in RowIds : FitKey(i, r) = PairTable(i)[e][1] /\ ~IsNA(data[Dests[i]][r])},
            PairTable(i)[e][2])

(***************************************************************************)
(* C5.  Idempotence of the four group imputers: for every list of column   *)
(* pairs, transform(transform(D)) = transform(D).  As claimed, also for    *)
(* lists in which the dst of one pair is the src of another, in any order  *)
(* of declaration: this fails.                                             *)
(***************************************************************************)
\* transform has returned for the argument data, which an earlier transform
\* of the fitted instance returned
ReturnedTwice == IsGroup /\ fits = "completed" /\ Returned /\ previous # None

C5_Idempotent == ReturnedTwice => The(result) = data

(***************************************************************************)
(* C5 as amended: transform(transform(D)) = transform(D) when no pair      *)
(* reads a src column that transform writes after the pair has read it:    *)
(* for CatAndNumImputer and CatAndCatImputer, when no dst column of a pair *)
(* is the src column of the same or an earlier declared pair; for          *)
(* NumAndNumImputer and NumAndCatImputer, which bin every src column       *)
(* before the first pair is applied, when no dst column of a pair is the   *)
(* src column of any pair.                                                 *)
(***************************************************************************)
NoSrcWrittenAfterRead ==
    \A i \in PairIds : \A j \in PairIds :
        (IsBinned \/ j <= i) => Dests[i] # Srcs[j]

C5_IdempotentWithoutFeedback ==
    (ReturnedTwice /\ NoSrcWrittenAfterRead) => The(result) = data

\* the first transform filled a cell and left one missing, and the second
\* returned the dataset it was given
C5_Witness ==
    /\ ReturnedTwice /\ NoSrcWrittenAfterRead
    /\ data # The(previous)
    /\ \E i \in PairIds : \E r \in RowIds :
        IsNA(data[Dests[i]][r]) /\ ~IsNA(data[Srcs[i]][r])
    /\ The(result) = data

(***************************************************************************)
(* C6.  Fit must precede transform: for each of the six classes, a call of *)
(* transform that returns a dataset is preceded by a completed fit of the  *)
(* instance; transform of an instance never fitted raises.                 *)
(***************************************************************************)
C6_FitPrecedesTransform == Returned => fits = "completed"

(***************************************************************************)
(* C7.  Transform never writes the fitted state: a call of transform       *)
(* leaves every attribute of the instance (impute_value_dict and the bin   *)
(* edges, impute_values, outlier_bounds and fill_values) as it was, so     *)
(* after any sequence of transforms the instance is as fit left it.        *)
(***************************************************************************)
C7_TransformKeepsInstance == [][call' = "transform" => self' = self]_vars

\* a transform of the fitted instance that returned a dataset other than its
\* argument, the argument not being the fit dataset
C7_Witness ==
    /\ Returned /\ fits = "completed"
    /\ NRows(data) = TransformRows
    /\ The(result) # data

(***************************************************************************)
(* C8.  Neither fit nor transform modifies the dataset it is given: after  *)
(* the call every cell of the caller's dataset is as before the call.      *)
(***************************************************************************)
C8_ArgumentUnchanged == [][call' \in {"fit", "transform"} => data' = data]_vars

\* a transform that returned a dataset with a cell changed
C8_Witness ==
    /\ Returned
    /\ \E c \in Cols : \E r \in RowIds : The(result)[c][r] # data[c][r]

(***************************************************************************)
(* C9.  For the four group imputers and every pair (src, dst): the table   *)
(* of the pair holds, for each key, the statistic of the dst values of the *)
(* rows of that key in which src and dst are both present; a row with a    *)
(* missing src is in no group.  As claimed, for all four classes: this     *)
(* fails for NumAndNumImputer and NumAndCatImputer.                        *)
(***************************************************************************)
Stat == IF self.class \in {"NumAndNumImputer", "CatAndNumImputer"} THEN "median" ELSE "mode"

\* the table of pair i is the one its groups give when the rows R contribute
TableFromRows(i, R) ==
    /\ TableKeys(PairTable(i)) = {FitKey(i, r) : r \in R}
    /\ \A e \in DOMAIN PairTable(i) :
        PairTable(i)[e][2]
            = statistic(Stat, SelectRows(data[Dests[i]],
                                         {r \in R : FitKey(i, r) = PairTable(i)[e][1]}, 1))

BothPresent(i) == {r \in RowIds : ~IsNA(data[Srcs[i]][r]) /\ ~IsNA(data[Dests[i]][r])}
DestPresent(i) == {r \in RowIds : ~IsNA(data[Dests[i]][r])}

C9_BothPresent ==
    (IsGroup /\ AfterFit) => \A i \in PairIds : TableFromRows(i, BothPresent(i))

(***************************************************************************)
(* C9 as amended: for CatAndNumImputer and CatAndCatImputer a row          *)
(* contributes to the group of its src category exactly when src and dst   *)
(* are both present.  For NumAndNumImputer and NumAndCatImputer a row      *)
(* contributes exactly when its dst is present: a missing src is read as 0 *)
(* and the row is in the group of the bin of 0.                            *)
(***************************************************************************)
C9_ContributingRows ==
    (IsGroup /\ AfterFit) =>
        \A i \in PairIds :
            TableFromRows(i, IF IsBinned THEN DestPresent(i) ELSE BothPresent(i))

\* a fit with a row without src, its dst present: of a categorical-src
\* imputer, next to a row that contributes, or of a numeric-src imputer,
\* the row being the only one of its group
C9_Witness ==
    /\ IsGroup /\ AfterFit
    /\ \E i \in PairIds : \E r \in RowIds :
        /\ IsNA(data[Srcs[i]][r])
        /\ ~IsNA(data[Dests[i]][r])
        /\ IF IsBinned
           THEN /\ \A q \in DestPresent(i) : q # r => FitKey(i, q) # FitKey(i, r)
                /\ FitKey(i, r) \in TableKeys(PairTable(i))
           ELSE /\ BothPresent(i) # {}
                /\ \A e \in DOMAIN PairTable(i) :
                    PairTable(i)[e][2] # data[Dests[i]][r]

(***************************************************************************)
(* C10.  Pairs that share a dst column are applied in the order of their   *)
(* declaration and an application changes only cells that are missing when *)
(* it runs: a cell that is not missing when a pair is applied keeps its    *)
(* value, and a cell missing in the argument ends as the statistic of the  *)
(* first declared pair with its dst whose table has the key of the row,    *)
(* missing if there is none.                                               *)
(***************************************************************************)
\* the pairs with dst column d whose table has the key of row r
Hits(d, r) ==
    {i \in PairIds : Dests[i] = d /\ LookupKey(i, r) \in TableKeys(PairTable(i))}

C10_FirstDeclaredPairWins ==
    (IsGroup /\ Returned /\ fits = "completed") =>
        /\ \A i \in PairIds : \A r \in RowIds :
            ~IsNA(Before(i)[Dests[i]][r]) => After(i)[Dests[i]][r] = Before(i)[Dests[i]][r]
        /\ \A d \in Cols : \A r \in RowIds :
            IsNA(data[d][r]) =>
                IF Hits(d, r) = {} THEN IsNA(The(result)[d][r])
                ELSE LET i == CHOOSE i \in Hits(d, r) : \A h \in Hits(d, r) : i <= h
                     IN  The(result)[d][r] = TableStat(PairTable(i), LookupKey(i, r))

\* two pairs with one dst have entries of different statistics for a row
\* whose dst is missing, and the cell ends as the statistic of the first
C10_Witness ==
    /\ IsGroup /\ Returned /\ fits = "completed"
    /\ \E i \in PairIds : \E h \in PairIds : \E r \in RowIds :
        /\ i < h
        /\ Dests[i] = Dests[h]
        /\ IsNA(data[Dests[i]][r])
        /\ {i, h} \subseteq Hits(Dests[i], r)
        /\ TableStat(PairTable(i), LookupKey(i, r)) # TableStat(PairTable(h), LookupKey(h, r))
        /\ The(result)[Dests[i]][r] = TableStat(PairTable(i), LookupKey(i, r))

(***************************************************************************)
(* Column names that contain '_': the instances and datasets of C11.       *)
(***************************************************************************)
KeyCols == {"a_b", "c", "a", "b_c"}
KeyDatasets(n) == [KeyCols -> [1..n -> Cells]]

\* lists of pairwise distinct pairs: two lists whose pairs give one string
\* src_col+"_"+dest_col, in both orders, and a list whose pairs do not
KeyPairLists ==
    { << << "a_b", "c" >>, << "a", "b_c" >> >>,
      << << "a", "b_c" >>, << "a_b", "c" >> >>,
      << << "a_b", "c" >>, << "a", "c" >> >> }

KeyInstances ==
    { NewBinnedImputer(cls, pairs, DefaultNBins, "quantile") :
        cls \in BinnedClasses, pairs \in KeyPairLists }
    \cup { NewRawImputer(cls, pairs) : cls \in RawClasses, pairs \in KeyPairLists }

InitKeys ==
    /\ self \in KeyInstances
    /\ data \in KeyDatasets(FitRows)
    /\ result = None
    /\ raised = FALSE
    /\ call = "none"
    /\ fits = "none"
    /\ previous = None

NextKeys ==
    \/ NumAndNumImputer_fit_call
    \/ CatAndNumImputer_fit_call
    \/ CatAndCatImputer_fit_call
    \/ NumAndCatImputer_fit_call
    \/ NumAndNumImputer_transform_call
    \/ CatAndNumImputer_transform_call
    \/ CatAndCatImputer_transform_call
    \/ NumAndCatImputer_transform_call

\* fit, then transform of the fit dataset, on columns named with '_'
SpecKeys == InitKeys /\ [][NextKeys]_vars

(***************************************************************************)
(* C11.  The fitted tables are keyed by the pair (src, dst): for every     *)
(* list of pairwise distinct pairs, also of columns named with '_', fit    *)
(* stores one table per pair, computed from the pair's own two columns,    *)
(* and transform applies to each pair the table learned for that pair.     *)
(***************************************************************************)
\* the table of the two columns of pair i in the fit dataset data
OwnTable(i) ==
    group_table([r \in RowIds |-> FitKey(i, r)], data[Dests[i]], Stat)

C11_TablePerPair ==
    /\ (IsGroup /\ AfterFit) =>
        /\ Cardinality(DOMAIN self.impute_value_dict) = Len(self.column_pairs)
        /\ \A i \in PairIds : PairTable(i) = OwnTable(i)
    /\ (IsGroup /\ Returned /\ fits = "completed") =>
        \A i \in PairIds : \A r \in RowIds :
            (IsNA(Before(i)[Dests[i]][r]) /\ LookupKey(i, r) \in TableKeys(OwnTable(i)))
                => After(i)[Dests[i]][r] = TableStat(OwnTable(i), LookupKey(i, r))

(***************************************************************************)
(* C12.  MissingImputer.transform on a fitted instance: in every column of *)
(* strategies each missing cell becomes the scalar fit resolved for the    *)
(* column; every cell that was present, and every column that is no key of *)
(* strategies, is in the output as in the input.                           *)
(***************************************************************************)
IsMissingImputer == self.class = "MissingImputer"

C12_FillsConfiguredColumns ==
    (IsMissingImputer /\ Returned /\ fits = "completed") =>
        \A c \in Cols : \A r \in RowIds :
            IF c \in item_keys(self.strategies) /\ IsNA(data[c][r])
            THEN The(result)[c][r] = self.impute_values[c]
            ELSE The(result)[c][r] = data[c][r]

\* one transform with a missing cell filled, a present cell of a configured
\* column and a missing cell of a column without strategy
C12_Witness ==
    /\ IsMissingImputer /\ Returned /\ fits = "completed"
    /\ \E c \in item_keys(self.strategies) : \E r \in RowIds :
        IsNA(data[c][r]) /\ ~IsNA(The(result)[c][r])
    /\ \E c \in item_keys(self.strategies) : \E r \in RowIds :
        ~IsNA(data[c][r]) /\ data[c][r] # self.impute_values[c]
    /\ \E c \in Cols \ item_keys(self.strategies) : \E r \in RowIds : IsNA(data[c][r])

(***************************************************************************)
(* C13.  MissingImputer.fit: for a strategy value that is none of 'mean',  *)
(* 'median', 'mode' (a number, another string) the value stored for the    *)
(* column is the strategy value itself, whatever the fit dataset holds;    *)
(* for the three tags it is the mean, the median or a most frequent value  *)
(* of the values of the column that are not missing.                       *)
(***************************************************************************)
Tags == { << "mean" >>, << "median" >>, << "mode" >> }

\* the values of column c of the fit dataset that are not missing
Present(c) == {r \in RowIds : ~IsNA(data[c][r])}

\* m is the mean of the values of column c over the rows R
IsMean(c, R, m) == RMul(m, Q(Cardinality(R))) = sum(SelectRows(data[c], R, 1))

\* m is the median of the values of column c over the rows R: the middle
\* one in ascending order, or half the sum of the two middle ones
IsMedian(c, R, m) ==
    LET a == sorted(SelectRows(data[c], R, 1))
        n == Len(a)
    IN  IF n % 2 = 1 THEN m = a[(n + 1) \div 2]
        ELSE RMul(m, Q(2)) = RAdd(a[n \div 2], a[n \div 2 + 1])

\* m is a value of column c over the rows R that no other value outnumbers
IsMostFrequent(c, R, m) ==
    /\ \E r \in R : data[c][r] = m
    /\ \A q \in R : Cardinality({r \in R : data[c][r] = data[c][q]})
                        <= Cardinality({r \in R : data[c][r] = m})

C13_StoredValues ==
    (IsMissingImputer /\ AfterFit) =>
        \A s \in DOMAIN self.strategies :
            LET c        == self.strategies[s][1]
                strategy == self.strategies[s][2]
                m        == self.impute_values[c]
            IN  /\ c \in DOMAIN self.impute_values
                /\ strategy \notin Tags => m = strategy
                /\ (strategy \in Tags /\ Present(c) # {}) =>
                    /\ strategy = << "mean" >> => IsMean(c, Present(c), m)
                    /\ strategy = << "median" >> => IsMedian(c, Present(c), m)
                    /\ strategy = << "mode" >> => IsMostFrequent(c, Present(c), m)

\* a fit that stored a number and a mean that is no value of the column, or
\* a string and a median that is no value of the column
C13_Witness ==
    /\ IsMissingImputer /\ AfterFit
    /\ \E s \in DOMAIN self.strategies :
        /\ self.strategies[s][2] \notin Tags
        /\ \E r \in RowIds : ~IsNA(data[self.strategies[s][1]][r])
        /\ \A r \in RowIds : data[self.strategies[s][1]][r] # self.strategies[s][2]
    /\ \E s \in DOMAIN self.strategies :
        /\ self.strategies[s][2] \in { << "mean" >>, << "median" >> }
        /\ Cardinality(Present(self.strategies[s][1])) = 2
        /\ \A r \in RowIds : data[self.strategies[s][1]][r] # self.impute_values[self.strategies[s][1]]

(***************************************************************************)
(* C14.  No missing values left: for every dataset D and every strategies  *)
(* mapping, after MissingImputer(strategies).fit(D).transform(D) no cell   *)
(* of a column of strategies is missing.  As claimed, for every D: this    *)
(* fails for a column of D that has no value.                              *)
(***************************************************************************)
\* the step is transform(D) right after fit(D) completed on the instance
TransformAfterFit == IsMissingImputer /\ AfterFit /\ call' = "transform"

StrategyOf(c) ==
    self.strategies[CHOOSE s \in DOMAIN self.strategies : self.strategies[s][1] = c][2]

IsOutlierHandler == self.class = "OutlierHandler"

\* transform has returned for a fitted OutlierHandler
Handled == IsOutlierHandler /\ Returned /\ fits = "completed"

Lower(c) == self.outlier_bounds[c][1]
Upper(c) == self.outlier_bounds[c][2]

Inverted(c) == ~IsNA(Lower(c)) /\ ~IsNA(Upper(c)) /\ RLess(Upper(c), Lower(c))

C16_InsideUnchanged ==
    Handled =>
        \A c \in Cols : \A r \in RowIds :
            (\/ c \notin item_keys(self.strategies)
             \/ IsNA(data[c][r])
             \/ cell_le(Lower(c), data[c][r]) /\ cell_le(data[c][r], Upper(c)))
                => The(result)[c][r] = data[c][r]

\* a transform with a cell equal to a bound, a missing cell of a column of
\* strategies, and a cell outside the bounds that it changes
C16_Witness ==
    /\ Handled
    /\ \E c \in item_keys(self.strategies) : \E r \in RowIds :
        data[c][r] = Lower(c) /\ cell_le(data[c][r], Upper(c))
    /\ \E c \in item_keys(self.strategies) : \E r \in RowIds : IsNA(data[c][r])
    /\ \E c \in item_keys(self.strategies) : \E r \in RowIds :
        The(result)[c][r] # data[c][r]

(***************************************************************************)
(* The example of the OutlierHandler notebook: the dataset with columns    *)
(*   a = [1, 2, 100, 1000], b = [-100, 45, 200, 2000], c = [540, 10, 59, 2] *)
(* and the handler {'a': ['quantile', [0.2, 0.8], 'na'],                   *)
(* 'b': ['values', [0, 200], 'clip'], 'c': ['iqr', 'clip']}; next to it    *)
(* the datasets with other cells in column a or in column c, and a handler *)
(* with other quantiles.                                                   *)
(***************************************************************************)
ExampleA == << Q(1), Q(2), Q(100), Q(1000) >>
ExampleB == << Q(-100), Q(45), Q(200), Q(2000) >>
ExampleC == << Q(540), Q(10), Q(59), Q(2) >>
ExampleData == [a |-> ExampleA, b |-> ExampleB, c |-> ExampleC]

\* the columns made of the values of column col and of missing cells
ColumnsLike(col) == [DOMAIN col -> {col[r] : r \in DOMAIN col} \cup {NA}]

ExampleDatasets ==
    { [ExampleData EXCEPT !.a = col] : col \in ColumnsLike(ExampleA) }
    \cup { [ExampleData EXCEPT !.c = col] : col \in ColumnsLike(ExampleC) }

ExampleHandler(lower_quantile, upper_quantile) ==
    NewOutlierHandler(
        << << "a", << "quantile", << lower_quantile, upper_quantile >>, "na" >> >>,
           << "b", << "values", << Q(0), Q(200) >>, "clip" >> >>,
           << "c", << "iqr", "clip" >> >> >>)

InitExample ==
    /\ self \in { ExampleHandler(Rat(1, 5), Rat(4, 5)), ExampleHandler(Rat(1, 4), Rat(1, 2)) }
    /\ data \in ExampleDatasets
    /\ result = None
    /\ raised = FALSE
    /\ call = "none"
    /\ fits = "none"
    /\ previous = None

NextExample ==
    \/ OutlierHandler_fit_call
    \/ OutlierHandler_transform_call

\* fit, then transform of the fit dataset
SpecExample == InitExample /\ [][NextExample]_vars

\* the values of column c of data that are not missing, in ascending order
SortedPresent(c) == sorted(SelectRows(data[c], Present(c), 1))

\* the quantile q of the ascending sequence a, not empty: with h = (n-1)q
\* and f the fraction of h, (1-f) a[floor(h)+1] + f a[floor(h)+2]
Percentile(a, q) ==
    LET h == RMul(Q(Len(a) - 1), q)
        i == h[1] \div h[2]
        f == RSub(h, Q(i))
    IN  IF f = Q(0) THEN a[i + 1]
        ELSE RAdd(RMul(RSub(Q(1), f), a[i + 1]), RMul(f, a[i + 2]))

(***************************************************************************)
(* C17.  IQR bounds: for ['iqr', fill_value] fit stores                    *)
(* lower_bound = q1 - 1.5 (q3 - q1) and upper_bound = q3 + 1.5 (q3 - q1),  *)
(* q1 and q3 the 25th and 75th percentiles, by linear interpolation, of    *)
(* the values of the fit column that are not missing; with 'clip' the      *)
(* values outside are clipped to the bound and the values inside are       *)
(* unchanged.  For the column [540, 10, 59, 2] the bounds are -248.875 and *)
(* 436.125 and only 540 changes, to 436.125.                               *)
(***************************************************************************)
\* the cell v clipped to the bounds of column c
Clipped(c, v) ==
    IF cell_lt(v, Lower(c)) THEN Lower(c)
    ELSE IF cell_gt(v, Upper(c)) THEN Upper(c)
    ELSE v

C17_IqrBounds ==
    /\ (IsOutlierHandler /\ fits = "completed" /\ Present("c") # {}) =>
        LET q1 == Percentile(SortedPresent("c"), Rat(1, 4))
            q3 == Percentile(SortedPresent("c"), Rat(3, 4))
        IN  /\ Lower("c") = RSub(q1, RMul(Rat(3, 2), RSub(q3, q1)))
            /\ Upper("c") = RAdd(q3, RMul(Rat(3, 2), RSub(q3, q1)))
            /\ data["c"] = ExampleC =>
                /\ Lower("c") = Rat(-248875, 1000)
                /\ Upper("c") = Rat(436125, 1000)
    /\ Handled =>
        /\ \A r \in RowIds : The(result)["c"][r] = Clipped("c", data["c"][r])
        /\ data["c"] = ExampleC =>
            The(result)["c"] = << Rat(436125, 1000), Q(10), Q(59), Q(2) >>

\* the example has been fitted and transformed
C17_Witness ==
    /\ Handled
    /\ data = ExampleData
    /\ The(result)["c"][1] = Upper("c")
    /\ The(result)["c"][2] = data["c"][2]

(***************************************************************************)
(* C18.  Quantile bounds with 'na': for ['quantile', [lo_q, hi_q], 'na']   *)
(* the bounds are the lo_q and hi_q quantiles of the fit column, and       *)
(* transform makes missing exactly the cells whose value is below the      *)
(* lower or above the upper one.  For the column [1, 2, 100, 1000] with    *)
(* [0.2, 0.8] the cells holding 1 and 1000 become missing and 2 and 100    *)
(* are unchanged.                                                          *)
(***************************************************************************)
\* the quantiles given for column a
QuantilesOf(c) == StrategyOf(c)[2]

C18_QuantileBounds ==
    /\ (IsOutlierHandler /\ fits = "completed" /\ Present("a") # {}) =>
        /\ Lower("a") = Percentile(SortedPresent("a"), QuantilesOf("a")[1])
        /\ Upper("a") = Percentile(SortedPresent("a"), QuantilesOf("a")[2])
    /\ Handled =>
        /\ \A r \in RowIds :
            The(result)["a"][r] =
                IF cell_lt(data["a"][r], Lower("a")) \/ cell_gt(data["a"][r], Upper("a"))
                THEN NA
                ELSE data["a"][r]
        /\ (data["a"] = ExampleA /\ QuantilesOf("a") = << Rat(1, 5), Rat(4, 5) >>) =>
            The(result)["a"] = << NA, Q(2), Q(100), NA >>

\* the example has been fitted and transformed: bounds 1.6 and 460
C18_Witness ==
    /\ Handled
    /\ data = ExampleData
    /\ QuantilesOf("a") = << Rat(1, 5), Rat(4, 5) >>
    /\ Lower("a") = Rat(16, 10)
    /\ Upper("a") = Q(460)
    /\ IsNA(The(result)["a"][1])
    /\ The(result)["a"][2] = Q(2)

(***************************************************************************)
(* Strategies of OutlierHandler with a method tag that is none of          *)
(* 'quantile', 'values', 'iqr', or a disposition that is none of 'clip',   *)
(* 'na'.                                                                   *)
(***************************************************************************)
MethodTags == {"quantile", "values", "iqr"}
Dispositions == {"clip", "na"}

TagStrategies ==
    { << << "a", << "zscore", "clip" >> >> >>,
      << << "a", << "iqr", "clip" >> >>, << "b", << "zscore", "na" >> >> >>,
      << << "a", << "iqr", "drop" >> >> >>,
      << << "b", << "values", << Q(2), Q(2) >>, "drop" >> >> >> }

InitTags ==
    /\ self \in { NewOutlierHandler(st) : st \in TagStrategies }
    /\ data \in Datasets(FitRows)
    /\ result = None
    /\ raised = FALSE
    /\ call = "none"
    /\ fits = "none"
    /\ previous = None

NextTags ==
    \/ Load
    \/ OutlierHandler_fit_call
    \/ OutlierHandler_transform_call

SpecTags == InitTags /\ [][NextTags]_vars

(***************************************************************************)
(* C19.  A strategy tag that cannot be resolved is a configuration error:  *)
(* OutlierHandler.fit with a method tag that is none of 'quantile',        *)
(* 'values', 'iqr' raises and stores no bounds for the column; a           *)
(* disposition that is none of 'clip', 'na' is rejected, not applied.      *)
(***************************************************************************)
\* the method tag and the disposition given for column c
MethodOf(c) == StrategyOf(c)[1]
DispositionOf(c) == StrategyOf(c)[Len(StrategyOf(c))]

C19_UnresolvableTagRejected ==
    /\ (IsOutlierHandler /\ call = "fit") =>
        \A c \in item_keys(self.strategies) :
            MethodOf(c) \notin MethodTags =>
                /\ fits = "raised"
                /\ c \notin DOMAIN self.outlier_bounds
    /\ (IsOutlierHandler /\ call = "transform") =>
        \A c \in item_keys(self.strategies) :
            DispositionOf(c) \notin Dispositions => result = None

(***************************************************************************)
(* fit on a dataset that lacks a column: x[col], x[[col]] and x[cols]      *)
(* raise KeyError for a label that is not a column of x, and fit stops     *)
(* there with what it has assigned so far.                                 *)
(***************************************************************************)
\* the datasets of n rows that lack one of the columns
LackingDatasets(n) == UNION { [Cols \ {c} -> [1..n -> Cells]] : c \in Cols }

\* the columns an instance is configured with
configured_columns(slf) ==
    IF slf.class \in GroupClasses
    THEN item_keys(slf.column_pairs) \cup {slf.column_pairs[i][2] : i \in DOMAIN slf.column_pairs}
    ELSE item_keys(slf.strategies)

\* the first iteration of a loop of n iterations among those of the set
\* failing, n + 1 when there is none
first_failing(failing, n) ==
    IF failing = {} THEN n + 1
    ELSE CHOOSE i \in failing : \A j \in failing : i <= j

\* fit of CatAndNumImputer and CatAndCatImputer: src_cols and dest_cols are
\* assigned, then the loop stores the tables of the pairs before the first
\* one with x[[src_col]] or x[[dest_col]] raising
raw_fit_lacking(slf, x, stat) ==
    LET srcs  == pair_srcs(slf.column_pairs)
        dests == pair_dests(slf.column_pairs)
        k     == first_failing({i \in DOMAIN srcs : srcs[i] \notin DOMAIN x
                                                    \/ dests[i] \notin DOMAIN x},
                               Len(srcs))
    IN  [self |-> [slf EXCEPT !.src_cols = Some(srcs),
                              !.dest_cols = Some(dests),
                              !.impute_value_dict =
                                  fit_pairs(@, FALSE, x, x, SubSeq(srcs, 1, k - 1),
                                            SubSeq(dests, 1, k - 1), stat, 1)],
         raised |-> k <= Len(srcs)]

\* fit of NumAndNumImputer and NumAndCatImputer: src_cols and dest_cols are
\* assigned, x[self.src_cols] raises when a source column is lacking, else
\* the discretizer is fitted and the loop stores the tables of the pairs
\* before the first one with x[[dest_col]] raising
binned_fit_lacking(slf, x, stat) ==
    LET srcs     == pair_srcs(slf.column_pairs)
        dests    == pair_dests(slf.column_pairs)
        edges    == kbins_fit(x, srcs, slf.n_bins, slf.binning_strategy)
        binned_x == kbins_transform(edges, x, srcs)
        k        == first_failing({i \in DOMAIN dests : dests[i] \notin DOMAIN x},
                                  Len(dests))
    IN  IF \E j \in DOMAIN srcs : srcs[j] \notin DOMAIN x
        THEN [self |-> [slf EXCEPT !.src_cols = Some(srcs), !.dest_cols = Some(dests)],
              raised |-> TRUE]
        ELSE [self |-> [slf EXCEPT !.src_cols = Some(srcs),
                                   !.dest_cols = Some(dests),
                                   !.bin_edges = Some(edges),
                                   !.impute_value_dict =
                                       fit_pairs(@, TRUE, x, binned_x, SubSeq(srcs, 1, k - 1),
                                                 SubSeq(dests, 1, k - 1), stat, 1)],
              raised |-> k <= Len(dests)]

NumAndNumImputer_fit_lacking(slf, x) == binned_fit_lacking(slf, x, "median")
CatAndNumImputer_fit_lacking(slf, x) == raw_fit_lacking(slf, x, "median")
CatAndCatImputer_fit_lacking(slf, x) == raw_fit_lacking(slf, x, "mode")
NumAndCatImputer_fit_lacking(slf, x) == binned_fit_lacking(slf, x, "mode")

\* MissingImputer.fit: the loop stores the values of the columns before the
\* first one with x[col] raising
MissingImputer_fit_lacking(slf, x) ==
    LET k == first_failing({i \in DOMAIN slf.strategies :
                                slf.strategies[i][1] \notin DOMAIN x},
                           Len(slf.strategies))
        r == MissingImputer_fit_loop(slf.impute_values,
                                     SubSeq(slf.strategies, 1, k - 1), x, 1)
    IN  [self |-> [slf EXCEPT !.impute_values = r.impute_values],
         raised |-> r.raised \/ k <= Len(slf.strategies)]

\* OutlierHandler.fit: the branch of 'values' does not read x[col]; the loop
\* stores the bounds of the columns before the first one with x[col] raising
OutlierHandler_fit_lacking(slf, x) ==
    LET k == first_failing({i \in DOMAIN slf.strategies :
                                /\ slf.strategies[i][2][1] # "values"
                                /\ slf.strategies[i][1] \notin DOMAIN x},
                           Len(slf.strategies))
        fitted == OutlierHandler_fit_loop(
                      [slf EXCEPT !.strategies = SubSeq(@, 1, k - 1)], x, 1)
    IN  [self |-> [fitted EXCEPT !.strategies = slf.strategies],
         raised |-> k <= Len(slf.strategies)]

InitColumns ==
    /\ self \in Instances
    /\ data \in LackingDatasets(FitRows)
    /\ result = None
    /\ raised = FALSE
    /\ call = "none"
    /\ fits = "none"
    /\ previous = None

NumAndNumImputer_fit_lacking_call ==
    /\ self.class = "NumAndNumImputer"
    /\ FitCall(NumAndNumImputer_fit_lacking(self, data).self,
               NumAndNumImputer_fit_lacking(self, data).raised)

CatAndNumImputer_fit_lacking_call ==
    /\ self.class = "CatAndNumImputer"
    /\ FitCall(CatAndNumImputer_fit_lacking(self, data).self,
               CatAndNumImputer_fit_lacking(self, data).raised)

CatAndCatImputer_fit_lacking_call ==
    /\ self.class = "CatAndCatImputer"
    /\ FitCall(CatAndCatImputer_fit_lacking(self, data).self,
               CatAndCatImputer_fit_lacking(self, data).raised)

NumAndCatImputer_fit_lacking_call ==
    /\ self.class = "NumAndCatImputer"
    /\ FitCall(NumAndCatImputer_fit_lacking(self, data).self,
               NumAndCatImputer_fit_lacking(self, data).raised)

MissingImputer_fit_lacking_call ==
    /\ self.class = "MissingImputer"
    /\ FitCall(MissingImputer_fit_lacking(self, data).self,
               MissingImputer_fit_lacking(self, data).raised)

OutlierHandler_fit_lacking_call ==
    /\ self.class = "OutlierHandler"
    /\ FitCall(OutlierHandler_fit_lacking(self, data).self,
               OutlierHandler_fit_lacking(self, data).raised)

NextColumns ==
    \/ NumAndNumImputer_fit_lacking_call
    \/ CatAndNumImputer_fit_lacking_call
    \/ CatAndCatImputer_fit_lacking_call
    \/ NumAndCatImputer_fit_lacking_call
    \/ MissingImputer_fit_lacking_call
    \/ OutlierHandler_fit_lacking_call

SpecColumns == InitColumns /\ [][NextColumns]_vars

(***************************************************************************)
(* C20.  A configured column absent from the dataset is reported at the    *)
(* entry of fit: for every class, fit on a dataset that lacks a configured *)
(* column raises, and the fitted state of the instance is the one before   *)
(* the call, whichever configured column is the absent one.                *)
(***************************************************************************)
\* the dataset lacks a column the instance is configured with
Lacks == ~(configured_columns(self) \subseteq DOMAIN data)

C20_AbsentColumnLeavesState ==
    [][(call' = "fit" /\ Lacks) => (raised' /\ self' = self)]_vars

(***************************************************************************)
(* C21.  Degenerate binning: when the values of a src column in the fit    *)
(* dataset, a missing value read as 0, are all the same, fit of            *)
(* NumAndNumImputer and NumAndCatImputer does not raise, every row of the  *)
(* fit dataset and every row of any dataset given to transform has the bin *)
(* 0 in that column, and the pair's table has no key but 0.                *)
(***************************************************************************)
\* the src column of pair i holds one value in data, a missing value read as 0
Degenerate(i) ==
    \A r, q \in RowIds :
        fillna(data[Srcs[i]], Q(0))[r] = fillna(data[Srcs[i]], Q(0))[q]

C21_DegenerateBinning ==
    (IsBinned /\ call = "fit") =>
        \A i \in PairIds :
            Degenerate(i) =>
                /\ ~raised
                /\ fits = "completed"
                /\ \A r \in RowIds : FitKey(i, r) = Q(0)
                /\ \A x \in Datasets(TransformRows) :
                    \A r \in 1..TransformRows : BinColumn(x, i)[r] = Q(0)
                /\ TableKeys(PairTable(i)) \subseteq {Q(0)}

\* fit has returned for a src column that holds 2 in every row, next to a
\* src column of two values, and the table of the pair has the key 0
C21_Witness ==
    /\ IsBinned
    /\ AfterFit
    /\ \E i, h \in PairIds :
        /\ Degenerate(i)
        /\ ~Degenerate(h)
        /\ \A r \in RowIds : data[Srcs[i]][r] = Q(2)
        /\ TableKeys(PairTable(i)) = {Q(0)}

(***************************************************************************)
(* C22.  The order of the entries of a fitted table: ascending bins for    *)
(* NumAndNumImputer and NumAndCatImputer; for CatAndNumImputer and         *)
(* CatAndCatImputer, the order in which each category first appears in the *)
(* fit dataset.  As claimed: this fails for the categories.                *)
(***************************************************************************)
\* the keys of the entries of table t ascend
Ascending(t) == \A e \in 1..(Len(t) - 1) : RLess(t[e][1], t[e + 1][1])

\* the first row of the fit dataset with the key k for pair i
FirstRow(i, k) ==
    CHOOSE r \in RowIds : FitKey(i, r) = k /\ \A q \in 1..(r - 1) : FitKey(i, q) # k

\* the keys of the entries of the table of pair i are in the order in which
\* they first appear in the fit dataset
FirstSeen(i) ==
    \A e \in 1..(Len(PairTable(i)) - 1) :
        FirstRow(i, PairTable(i)[e][1]) < FirstRow(i, PairTable(i)[e + 1][1])

C22_TableOrder ==
    (IsGroup /\ AfterFit) =>
        \A i \in PairIds : IF IsBinned THEN Ascending(PairTable(i)) ELSE FirstSeen(i)

(***************************************************************************)
(* C22 as amended: the entries of a fitted table are stored in ascending   *)
(* order of their keys for all four imputers, bins and categories alike.   *)
(***************************************************************************)
C22_TableAscending ==
    (IsGroup /\ AfterFit) => \A i \in PairIds : Ascending(PairTable(i))

\* a table of CatAndNumImputer or CatAndCatImputer with two entries whose
\* greater key is met first in the fit dataset
C22_Witness ==
    /\ IsRaw
    /\ AfterFit
    /\ \E i \in PairIds :
        /\ Len(PairTable(i)) = 2
        /\ ~FirstSeen(i)

(***************************************************************************)
(* fit called again on an instance: the same fit, on the attributes the    *)
(* call before left.                                                       *)
(***************************************************************************)
\* the instance as __init__ leaves it for the configuration of slf
new_instance(slf) ==
    IF slf.class \in BinnedClasses
    THEN NewBinnedImputer(slf.class, slf.column_pairs, slf.n_bins, slf.binning_strategy)
    ELSE IF slf.class \in RawClasses
    THEN NewRawImputer(slf.class, slf.column_pairs)
    ELSE IF slf.class = "MissingImputer"
    THEN NewMissingImputer(slf.strategies)
    ELSE NewOutlierHandler(slf.strategies)

\* fit(x) of the class of slf: the instance it leaves and whether it raised
fit(slf, x) ==
    IF slf.class = "NumAndNumImputer"
    THEN [self |-> NumAndNumImputer_fit(slf, x), raised |-> FALSE]
    ELSE IF slf.class = "CatAndNumImputer"
    THEN [self |-> CatAndNumImputer_fit(slf, x), raised |-> FALSE]
    ELSE IF slf.class = "CatAndCatImputer"
    THEN [self |-> CatAndCatImputer_fit(slf, x), raised |-> FALSE]
    ELSE IF slf.class = "NumAndCatImputer"
    THEN [self |-> NumAndCatImputer_fit(slf, x), raised |-> FALSE]
    ELSE IF slf.class = "MissingImputer"
    THEN MissingImputer_fit(slf, x)
    ELSE [self |-> OutlierHandler_fit(slf, x), raised |-> FALSE]

\* transform(x) of the class of slf, on an instance that fit has been
\* called on: the dataset it returns, None when it raises
transform(slf, x) ==
    IF slf.class \in GroupClasses
    THEN Some(transform_upto(slf, x, Len(The(slf.src_cols))))
    ELSE IF slf.class = "MissingImputer"
    THEN Some(MissingImputer_transform(slf, x))
    ELSE IF OutlierHandler_unfitted(slf) THEN None
    ELSE Some(OutlierHandler_transform(slf, x))

\* the caller takes another dataset to fit the instance on, and keeps the
\* one of the fit before in previous
Reload ==
    \E x \in Datasets(TransformRows) :
        /\ call = "fit"
        /\ previous = None
        /\ data' = x
        /\ previous' = Some(data)
        /\ result' = None
        /\ raised' = FALSE
        /\ call' = "none"
        /\ UNCHANGED << self, fits >>

\* a call of fit on an instance that fit has been called on before
RefitCall(new_self, fit_raised) ==
    /\ fits # "none"
    /\ call = "none"
    /\ previous # None
    /\ self' = new_self
    /\ raised' = fit_raised
    /\ fits' = IF fit_raised THEN "raised" ELSE "completed"
    /\ call' = "fit"
    /\ result' = None
    /\ data' = argument_after_call(data, data)
    /\ UNCHANGED previous

NumAndNumImputer_refit_call ==
    /\ self.class = "NumAndNumImputer"
    /\ RefitCall(NumAndNumImputer_fit(self, data), FALSE)

CatAndNumImputer_refit_call ==
    /\ self.class = "CatAndNumImputer"
    /\ RefitCall(CatAndNumImputer_fit(self, data), FALSE)

CatAndCatImputer_refit_call ==
    /\ self.class = "CatAndCatImputer"
    /\ RefitCall(CatAndCatImputer_fit(self, data), FALSE)

NumAndCatImputer_refit_call ==
    /\ self.class = "NumAndCatImputer"
    /\ RefitCall(NumAndCatImputer_fit(self, data), FALSE)

MissingImputer_refit_call ==
    /\ self.class = "MissingImputer"
    /\ RefitCall(MissingImputer_fit(self, data).self, MissingImputer_fit(self, data).raised)

OutlierHandler_refit_call ==
    /\ self.class = "OutlierHandler"
    /\ RefitCall(OutlierHandler_fit(self, data), FALSE)

NextRefit ==
    \/ Reload
    \/ NumAndNumImputer_fit_call
    \/ CatAndNumImputer_fit_call
    \/ CatAndCatImputer_fit_call
    \/ NumAndCatImputer_fit_call
    \/ MissingImputer_fit_call
    \/ OutlierHandler_fit_call
    \/ NumAndNumImputer_refit_call
    \/ CatAndNumImputer_refit_call
    \/ CatAndCatImputer_refit_call
    \/ NumAndCatImputer_refit_call
    \/ MissingImputer_refit_call
    \/ OutlierHandler_refit_call

SpecRefit == Init /\ [][NextRefit]_vars

(***************************************************************************)
(* C23.  Re-fit replaces the fitted state: for every class, after fit(D1)  *)
(* followed by fit(D2) on one instance, transform(D) returns for every D   *)
(* what it returns on a new instance of the same configuration on which    *)
(* only fit(D2) was called, and nothing learned from D1 is left in the     *)
(* fitted state.                                                           *)
(***************************************************************************)
\* fit(D2) has been called on the instance after fit(D1): data is D2 and
\* previous holds D1
Refitted == call = "fit" /\ previous # None

\* a new instance of the configuration of self after fit(D2) alone
FitOnce == fit(new_instance(self), data).self

C23_RefitReplaces ==
    Refitted =>
        /\ self = FitOnce
        /\ \A x \in Datasets(TransformRows) : transform(self, x) = transform(FitOnce, x)

(***************************************************************************)
(* C24.  Frame of the four group imputers: transform changes only cells    *)
(* that are missing in its input and lie in the dst column of a pair.      *)
(* Every present cell, every column that is the dst of no pair, the        *)
(* columns and the number and order of the rows are those of the input,    *)
(* and a cell missing in the output is missing in the input.               *)
(***************************************************************************)
\* the dst columns of the pairs
DestCols == {Dests[i] : i \in PairIds}

C24_GroupFrame ==
    (IsGroup /\ Returned) =>
        /\ DOMAIN The(result) = DOMAIN data
        /\ \A c \in DOMAIN data :
            /\ DOMAIN The(result)[c] = DOMAIN data[c]
            /\ \A r \in RowIds :
                /\ The(result)[c][r] # data[c][r] => (IsNA(data[c][r]) /\ c \in DestCols)
                /\ IsNA(The(result)[c][r]) => IsNA(data[c][r])

\* transform has returned for a dataset of two rows with a missing cell it
\* fills, a missing cell it leaves in a column that is no dst, and a present
\* cell in a dst column whose key is in the pair's table
C24_Witness ==
    /\ IsGroup /\ Returned
    /\ NRows(data) = FitRows
    /\ \E c \in DestCols : \E r \in RowIds : IsNA(data[c][r]) /\ ~IsNA(The(result)[c][r])
    /\ \E c \in Cols \ DestCols : \E r \in RowIds : IsNA(data[c][r])
    /\ \E i \in PairIds : \E r \in RowIds :
        /\ ~IsNA(data[Dests[i]][r])
        /\ LookupKey(i, r) \in TableKeys(PairTable(i))
        /\ TableStat(PairTable(i), LookupKey(i, r)) # data[Dests[i]][r]

(***************************************************************************)
(* C25.  MissingImputer.fit completes without raising for every dataset    *)
(* that has the columns of strategies, however many of their values are    *)
(* missing, also for a column with the strategy 'mean', 'median' or 'mode' *)
(* in which every value is missing.                                        *)
(***************************************************************************)
C25_FitNeverRaises ==
    (IsMissingImputer /\ call = "fit" /\ item_keys(self.strategies) \subseteq DOMAIN data) =>
        /\ ~raised
        /\ fits = "completed"
        /\ item_keys(self.strategies) \subseteq DOMAIN self.impute_values

(***************************************************************************)
(* C26.  NumAndNumImputer.transform and NumAndCatImputer.transform take    *)
(* the bin of every row and src column once, from the input dataset with a *)
(* missing src value read as 0, before any pair is applied.  The bin a     *)
(* pair looks up is the same whatever the pairs before it filled, also     *)
(* when its src column is the dst column of a pair before it: a row whose  *)
(* src was missing is looked up in the bin of 0, not in the bin of the     *)
(* value filled in.                                                        *)
(***************************************************************************)
C26_BinsOfInput ==
    (IsBinned /\ Returned) =>
        /\ The(result) = After(Len(self.column_pairs))
        /\ \A i \in PairIds : \A r \in RowIds :
            LET t   == PairTable(i)
                k   == BinColumn(data, i)[r]
                was == Before(i)[Dests[i]][r]
                now == After(i)[Dests[i]][r]
            IN  /\ (IsNA(was) /\ k \in TableKeys(t)) => now = TableStat(t, k)
                /\ (~IsNA(was) \/ k \notin TableKeys(t)) => now = was

\* transform has returned; the src cell of a pair was missing in the input
\* and filled by a pair before it, the value filled in has another bin than
\* 0 has, the table has both bins with different statistics, and the dst
\* cell got the statistic of the bin of 0
C26_Witness ==
    /\ IsBinned /\ Returned
    /\ \E i \in PairIds : \E r \in RowIds :
        LET t      == PairTable(i)
            k      == BinColumn(data, i)[r]
            filled == BinColumn(Before(i), i)[r]
        IN  /\ \E h \in 1..(i - 1) : Dests[h] = Srcs[i]
            /\ IsNA(data[Srcs[i]][r])
            /\ ~IsNA(Before(i)[Srcs[i]][r])
            /\ filled # k
            /\ {k, filled} \subseteq TableKeys(t)
            /\ TableStat(t, k) # TableStat(t, filled)
            /\ IsNA(Before(i)[Dests[i]][r])
            /\ The(result)[Dests[i]][r] = TableStat(t, k)

=============================================================================
